---- MODULE Spec2Model ----
(***************************************************************************)
(* A model of src/src/App.tsx: the collaborative to-do list.  Every tab    *)
(* (client) keeps a local list `todos`, overwrites the shared "todos"      *)
(* document with its whole list on every local change, and replaces its    *)
(* list whenever the document's value is pushed back.  A second shared     *)
(* document, "dragging", holds one drag-presence record.                   *)
(*                                                                         *)
(* JavaScript arrays are sequences; the JavaScript indices (0-based, -1    *)
(* for "not found") are kept as the code computes them and converted at    *)
(* the point of access.                                                    *)
(***************************************************************************)
EXTENDS Integers, Sequences, FiniteSets, TLC

\* ------------------------------------------------------------------ bounds

\* How many user gestures (a submit, a click, a drag start, a drag move, an
\* unmount) a run holds; the end of a drag belongs to the gesture that began it.
MaxOps == 2
\* The clock's readings are 0..MaxClock.
MaxClock == 1
\* Writes a client may have in flight to the backend.
MaxInFlight == 2

\* ------------------------------------------------------------- environment

\* The open tabs.
Clients == {"c1", "c2"}

\* The values crypto.randomUUID() returns, in the order it returns them.
UUIDs == <<"a", "b", "c", "d", "e", "f", "g">>

\* JavaScript's null and undefined where the code compares or stores them.
Null == "null"
\* String(undefined): the property key a task without an id is stored under.
UndefinedKey == "undefined"
\* The value undefined as an array element: spreading it gives no fields.
Undefined == << >>

\* The characters the input field holds and the strings typed into it.
Texts == { << >>, <<" ", " ">>, <<" ", "x", " ">> }

\* clientId: one per browser profile (here one tab per profile).
clientId(c) == c

\* sessionId: one per tab.
sessionId(c) == IF c = "c1" THEN "s1" ELSE "s2"

\* ---------------------------------------------------------------- helpers

Min(a, b) == IF a < b THEN a ELSE b
Max(a, b) == IF a < b THEN b ELSE a

\* The elements of a sequence.
Range(s) == { s[i] : i \in 1..Len(s) }

\* t.id, which is undefined (a key "undefined") for a task without the field.
Id(t) == IF "id" \in DOMAIN t THEN t.id ELSE UndefinedKey

\* todos.map((t) => t.id)
Ids(list) == [i \in 1..Len(list) |-> Id(list[i])]

\* The ids of a list, as a set.
IdSet(list) == { Id(list[i]) : i \in 1..Len(list) }

\* String.prototype.trim over the characters of Texts.
RECURSIVE TrimStart(_)
TrimStart(s) == IF s # << >> /\ Head(s) = " " THEN TrimStart(Tail(s)) ELSE s

RECURSIVE TrimEnd(_)
TrimEnd(s) ==
  IF s # << >> /\ s[Len(s)] = " " THEN TrimEnd(SubSeq(s, 1, Len(s) - 1)) ELSE s

\* A trim that leaves the spaces where they are.
trimNothing(s) == s

trim(s) == TrimEnd(TrimStart(s))

\* todos.findIndex((t) => t.id === id): the first 0-based index, or -1.
findIndex(list, id) ==
  IF \E i \in 1..Len(list) : Id(list[i]) = id
  THEN (CHOOSE i \in 1..Len(list) :
          /\ Id(list[i]) = id
          /\ \A j \in 1..(i - 1) : Id(list[j]) # id) - 1
  ELSE -1

\* Math.max(...todos.map((t) => t.order)) of a non-empty list.
MaxOrderOf(list) ==
  CHOOSE m \in { list[i].order : i \in 1..Len(list) } :
    \A i \in 1..Len(list) : list[i].order <= m

\* Array.prototype.splice(start, 1) on arr: <<what is left, what was removed>>.
\* A negative start counts from the end; nothing is removed past the end.
SpliceOut(arr, start) ==
  LET n == Len(arr)
      s == IF start < 0 THEN Max(n + start, 0) ELSE Min(start, n)
  IN  IF s < n
      THEN << SubSeq(arr, 1, s) \o SubSeq(arr, s + 2, n), << arr[s + 1] >> >>
      ELSE << arr, << >> >>

\* Array.prototype.splice(start, 0, item) on arr.
SpliceIn(arr, start, item) ==
  LET n == Len(arr)
      s == IF start < 0 THEN Max(n + start, 0) ELSE Min(start, n)
  IN  SubSeq(arr, 1, s) \o << item >> \o SubSeq(arr, s + 1, n)

\* A move that exchanges the two elements instead of shifting those between.
arrayMoveSwapped(array, from, to) ==
  IF from < 0 \/ to < 0 THEN array
  ELSE [i \in 1..Len(array) |->
          IF i = from + 1 THEN array[to + 1]
          ELSE IF i = to + 1 THEN array[from + 1]
          ELSE array[i]]

\* arrayMove of @dnd-kit/sortable: the copy's length is read for the target
\* index before the element is taken out, and [0] of an empty removal is
\* undefined.
arrayMove(array, from, to) ==
  LET target  == IF to < 0 THEN Len(array) + to ELSE to
      out     == SpliceOut(array, from)
      removed == IF out[2] = << >> THEN Undefined ELSE out[2][1]
  IN  SpliceIn(out[1], target, removed)

\* ------------------------------------------------------------------- tasks

\* type Todo, as addTodo builds it.
Todo(id, text, done, order, updatedAt, updatedBy) ==
  [id |-> id, text |-> text, done |-> done, order |-> order,
   updatedAt |-> updatedAt, updatedBy |-> updatedBy]

\* type RemoteDragState.
RemoteDragState(itemId, overId, sid) ==
  [itemId |-> itemId, overId |-> overId, sessionId |-> sid]

\* The rank of a property key in the order the backend lists its children.
KeyOrder == UUIDs \o << UndefinedKey >>

\* saveToFirebase's data: data[t.id] = t for every task, a later task with
\* the same key replacing an earlier one.
Record(newTodos) ==
  [k \in { Id(newTodos[i]) : i \in 1..Len(newTodos) } |->
     LET i == CHOOSE i \in 1..Len(newTodos) :
                /\ Id(newTodos[i]) = k
                /\ \A j \in (i + 1)..Len(newTodos) : Id(newTodos[j]) # k
     IN  newTodos[i]]

\* Object.values(val): the values in key order.
RECURSIVE ValuesFrom(_, _)
ValuesFrom(val, r) ==
  IF r > Len(KeyOrder) THEN << >>
  ELSE (IF KeyOrder[r] \in DOMAIN val THEN << val[KeyOrder[r]] >> ELSE << >>)
       \o ValuesFrom(val, r + 1)

ObjectValues(val) == ValuesFrom(val, 1)

\* Inserting t into a list sorted by (a, b) => a.order - b.order, after every
\* element that does not compare greater (the sort is stable).
RECURSIVE InsertByOrder(_, _)
InsertByOrder(sorted, t) ==
  IF sorted = << >> THEN << t >>
  ELSE IF Head(sorted).order - t.order > 0 THEN << t >> \o sorted
  ELSE << Head(sorted) >> \o InsertByOrder(Tail(sorted), t)

\* A sort that leaves the values in the order of their keys.
SortByKey(list) == list

\* list.sort((a, b) => a.order - b.order)
RECURSIVE SortByOrder(_)
SortByOrder(list) ==
  IF list = << >> THEN << >>
  ELSE InsertByOrder(SortByOrder(SubSeq(list, 1, Len(list) - 1)), list[Len(list)])

\* The pushed values taken as they come, unsorted.
FromSnapshotUnsorted(val) ==
  IF DOMAIN val = {} THEN << >> ELSE ObjectValues(val)

\* The list the todos subscription sets for a pushed value.
FromSnapshot(val) ==
  IF DOMAIN val = {} THEN << >> ELSE SortByOrder(ObjectValues(val))

\* An add that numbers the new task by the list's length.
AddedByLength(list, id, trimmed, t, by) ==
  Append(list, Todo(id, trimmed, FALSE, Len(list) + 1, t, by))

\* addTodo's next list.
Added(list, id, trimmed, t, by) ==
  LET maxOrder == IF Len(list) # 0 THEN MaxOrderOf(list) ELSE 0
  IN  Append(list, Todo(id, trimmed, FALSE, maxOrder + 1, t, by))

\* A toggle that sets done instead of flipping it.
AlwaysDone(task) == TRUE

\* !t.done, which is true for a task without the field.
NotDone(task) == IF "done" \in DOMAIN task THEN ~task.done ELSE TRUE

\* { ...t, done: !t.done, updatedAt: Date.now(), updatedBy: clientId }
ToggledTask(task, t, by) ==
  [k \in DOMAIN task \cup {"done", "updatedAt", "updatedBy"} |->
     CASE k = "done" -> NotDone(task)
       [] k = "updatedAt" -> t
       [] k = "updatedBy" -> by
       [] OTHER -> task[k]]

\* toggleTodo's next list.
Toggled(list, id, t, by) ==
  [i \in 1..Len(list) |->
     IF Id(list[i]) = id THEN ToggledTask(list[i], t, by) ELSE list[i]]

\* A delete that closes the gap in the order values.
FilteredRenumbered(list, id) ==
  LET kept == SelectSeq(list, LAMBDA t : Id(t) # id)
  IN  [i \in 1..Len(kept) |-> [kept[i] EXCEPT !.order = i]]

\* todos.filter((t) => t.id !== id)
RECURSIVE Filtered(_, _)
Filtered(list, id) ==
  IF list = << >> THEN << >>
  ELSE (IF Id(Head(list)) # id THEN << Head(list) >> ELSE << >>)
       \o Filtered(Tail(list), id)

\* A re-stamp that leaves the task's order as it was.
RestampedKeepingOrder(task, pos, t, by) ==
  [k \in DOMAIN task \cup {"updatedAt", "updatedBy"} |->
     CASE k = "updatedAt" -> t
       [] k = "updatedBy" -> by
       [] OTHER -> task[k]]

\* { ...t, order: i + 1, updatedAt: Date.now(), updatedBy: clientId }, with
\* i the 1-based position here.
Restamped(task, pos, t, by) ==
  [k \in DOMAIN task \cup {"order", "updatedAt", "updatedBy"} |->
     CASE k = "order" -> pos
       [] k = "updatedAt" -> t
       [] k = "updatedBy" -> by
       [] OTHER -> task[k]]

\* handleDragEnd's moved, for a drop of activeId on another task overId.
Moved(list, activeId, overId) ==
  LET oldIndex == findIndex(list, activeId)
      newIndex == findIndex(list, overId)
  IN  arrayMove(list, oldIndex, newIndex)

\* A reorder that renumbers every task and stamps the moved one only.
ReOrderedStampingMoved(list, activeId, overId, ts, by) ==
  LET moved == Moved(list, activeId, overId)
  IN  [i \in 1..Len(moved) |->
         IF Id(moved[i]) = activeId
         THEN Restamped(moved[i], i, ts[i], by)
         ELSE [moved[i] EXCEPT !.order = i]]

\* handleDragEnd's reOrdered: moved.map reads the clock once per task, ts[i]
\* being the reading for the task at position i.
ReOrdered(list, activeId, overId, ts, by) ==
  LET moved == Moved(list, activeId, overId)
  IN  [i \in 1..Len(moved) |-> Restamped(moved[i], i, ts[i], by)]

\* ------------------------------------------------------------------- state

VARIABLES
  todos,          \* todos[c]: the component's list (useState)
  remoteDrag,     \* remoteDrag[c]: << >> for null, or << the record exposed >>
  mounted,        \* mounted[c]: the component is mounted and subscribed
  active,         \* active[c]: the id of the item being dragged in tab c, or Null
  droppables,     \* droppables[c]: the items the drag in tab c began over
  outbox,         \* outbox[c]: the writes tab c issued, not yet applied, in order
  remoteTodos,    \* the backend's "todos" document: key -> task
  remoteDragging, \* the backend's "dragging" document: << >> or << record >>
  todosDirty,     \* todosDirty[c]: a value of "todos" is still to be pushed to c
  dragDirty,      \* dragDirty[c]: a value of "dragging" is still to be pushed to c
  now,            \* the last reading of Date.now()
  nextId,         \* the index in UUIDs of the next crypto.randomUUID()
  ops,            \* the user events so far
  lastWrite,      \* << >>, or << the list of the "todos" write applied last >>
  last            \* the step taken last: what ran, for whom, on what

vars == << todos, remoteDrag, mounted, active, droppables, outbox, remoteTodos, remoteDragging,
           todosDirty, dragDirty, now, nextId, ops, lastWrite, last >>

\* The readings n successive calls of Date.now() may return, the clock
\* having read `from` last.
Readings(n, from) ==
  { ts \in [1..n -> from..MaxClock] : \A i \in 1..(n - 1) : ts[i] <= ts[i + 1] }

\* The tasks a backend may hold when the tabs open.
InitTasks ==
  << Todo(UUIDs[1], <<"x">>, FALSE, 1, 0, "c0"),
     Todo(UUIDs[2], <<"x">>, TRUE, 2, 0, "c0"),
     Todo(UUIDs[3], <<"x">>, FALSE, 3, 0, "c0") >>

InitStores == { Record(SubSeq(InitTasks, 1, n)) : n \in {0, Len(InitTasks)} }

\* The ids handed out so far: what a stale event may still name.
KnownIds == { UUIDs[i] : i \in 1..(nextId - 1) }

\* The record of a step: what ran (op) in which tab (c) on which ids (a, b),
\* the tab's list and the writes it had in flight before the step, and the
\* value of "todos" the step read; for addTodo the text submitted, and for
\* the dragging subscription what the tab exposed before and the value pushed.
Step(op, c, a, b, before, sent, val) ==
  [op |-> op, c |-> c, a |-> a, b |-> b, before |-> before, sent |-> sent, val |-> val,
   text |-> << >>, shown |-> << >>, drag |-> << >>]

\* The writes, as the backend receives them.
SetTodos(newTodos) ==
  [path |-> "todos", op |-> "set", data |-> Record(newTodos), drag |-> << >>,
   list |-> newTodos]
SetDragging(rec) ==
  [path |-> "dragging", op |-> "set", data |-> << >>, drag |-> << rec >>, list |-> << >>]
RemoveDragging ==
  [path |-> "dragging", op |-> "remove", data |-> << >>, drag |-> << >>, list |-> << >>]

\* The state after the component's construction: an empty list, nothing
\* exposed, and the first value of "todos" still to arrive.
InitFrom(stores) ==
  /\ todos = [c \in Clients |-> << >>]
  /\ remoteDrag = [c \in Clients |-> << >>]
  /\ mounted = [c \in Clients |-> TRUE]
  /\ active = [c \in Clients |-> Null]
  /\ droppables = [c \in Clients |-> {}]
  /\ outbox = [c \in Clients |-> << >>]
  /\ remoteTodos \in stores
  /\ remoteDragging = << >>
  /\ todosDirty = [c \in Clients |-> TRUE]
  /\ dragDirty = [c \in Clients |-> FALSE]
  /\ now = 0
  /\ nextId = Len(InitTasks) + 1
  /\ ops = 0
  /\ lastWrite = << >>
  /\ last = Step("init", Null, Null, Null, << >>, 0, << >>)

Init == InitFrom(InitStores)

\* A user gesture begins in tab c and issues n writes.
UserEvent(c, n) ==
  /\ mounted[c]
  /\ ops < MaxOps
  /\ Len(outbox[c]) + n <= MaxInFlight
  /\ ops' = ops + 1

\* The drag in tab c ends, issuing n writes.
DragEndEvent(c, n) ==
  /\ mounted[c]
  /\ Len(outbox[c]) + n <= MaxInFlight
  /\ ops' = ops

\* saveToFirebase(newTodos), after the writes in `first`.
saveToFirebase(c, first, newTodos) ==
  outbox' = [outbox EXCEPT ![c] = @ \o first \o << SetTodos(newTodos) >>]

\* addTodo, for the text the input holds at submit.
addTodo(c, text) ==
  LET trimmed == trim(text) IN
  IF trimmed = << >>
  THEN /\ UserEvent(c, 0)
       /\ last' = [Step("addTodo", c, Null, Null, todos[c], Len(outbox[c]), << >>)
                   EXCEPT !.text = text]
       /\ UNCHANGED << todos, remoteDrag, mounted, active, droppables, outbox, remoteTodos,
                       remoteDragging, todosDirty, dragDirty, now, nextId, lastWrite >>
  ELSE /\ UserEvent(c, 1)
       /\ nextId <= Len(UUIDs)
       /\ \E t \in now..MaxClock :
            LET next == Added(todos[c], UUIDs[nextId], trimmed, t, clientId(c)) IN
            /\ now' = t
            /\ todos' = [todos EXCEPT ![c] = next]
            /\ saveToFirebase(c, << >>, next)
       /\ nextId' = nextId + 1
       /\ last' = [Step("addTodo", c, Null, Null, todos[c], Len(outbox[c]), << >>)
                   EXCEPT !.text = text]
       /\ UNCHANGED << remoteDrag, mounted, active, droppables, remoteTodos, remoteDragging,
                       todosDirty, dragDirty, lastWrite >>

\* toggleTodo(id)
toggleTodo(c, id) ==
  /\ UserEvent(c, 1)
  /\ \E t \in now..MaxClock :
       LET next == Toggled(todos[c], id, t, clientId(c)) IN
       /\ now' = IF \E i \in 1..Len(todos[c]) : Id(todos[c][i]) = id THEN t ELSE now
       /\ todos' = [todos EXCEPT ![c] = next]
       /\ saveToFirebase(c, << >>, next)
  /\ last' = Step("toggleTodo", c, id, Null, todos[c], Len(outbox[c]), << >>)
  /\ UNCHANGED << remoteDrag, mounted, active, droppables, remoteTodos, remoteDragging,
                  todosDirty, dragDirty, nextId, lastWrite >>

\* deleteTodo(id)
deleteTodo(c, id) ==
  LET next == Filtered(todos[c], id) IN
  /\ UserEvent(c, 1)
  /\ todos' = [todos EXCEPT ![c] = next]
  /\ saveToFirebase(c, << >>, next)
  /\ last' = Step("deleteTodo", c, id, Null, todos[c], Len(outbox[c]), << >>)
  /\ UNCHANGED << remoteDrag, mounted, active, droppables, remoteTodos, remoteDragging,
                  todosDirty, dragDirty, now, nextId, lastWrite >>

\* What the drag library may report as `over` in tab c: an item of the list,
\* an item the drag began over (the list may have changed since), or null.
OverTargets(c) == IdSet(todos[c]) \cup droppables[c] \cup {Null}

\* handleDragStart: the drag of a rendered item begins.
handleDragStart(c, id) ==
  /\ UserEvent(c, 1)
  /\ active[c] = Null
  /\ \E i \in 1..Len(todos[c]) : Id(todos[c][i]) = id
  /\ active' = [active EXCEPT ![c] = id]
  /\ droppables' = [droppables EXCEPT ![c] = IdSet(todos[c])]
  /\ outbox' = [outbox EXCEPT ![c] =
                  Append(@, SetDragging(RemoteDragState(id, Null, sessionId(c))))]
  /\ last' = Step("handleDragStart", c, id, Null, todos[c], Len(outbox[c]), << >>)
  /\ UNCHANGED << todos, remoteDrag, mounted, remoteTodos, remoteDragging,
                  todosDirty, dragDirty, now, nextId, lastWrite >>

\* handleDragMove
handleDragMove(c, over) ==
  /\ UserEvent(c, 1)
  /\ active[c] # Null
  /\ outbox' = [outbox EXCEPT ![c] =
                  Append(@, SetDragging(RemoteDragState(active[c], over, sessionId(c))))]
  /\ last' = Step("handleDragMove", c, active[c], over, todos[c], Len(outbox[c]), << >>)
  /\ UNCHANGED << todos, remoteDrag, mounted, active, droppables, remoteTodos, remoteDragging,
                  todosDirty, dragDirty, now, nextId, lastWrite >>

\* A drag end that leaves the slot alone.
NoDragEndWrites == << >>

\* handleDragEnd's first statement: remove(draggingRef.current).
DragEndWrites == << RemoveDragging >>

\* A test that lets a drop of the item on itself through.
DroppedOnNothing(activeId, over) == over = Null

\* !over || active.id === over.id
NothingToMove(activeId, over) == over = Null \/ activeId = over

\* handleDragEnd: the slot is removed, then the list is reordered unless the
\* item was dropped on nothing or on itself.
handleDragEnd(c, over) ==
  /\ active[c] # Null
  /\ active' = [active EXCEPT ![c] = Null]
  /\ droppables' = [droppables EXCEPT ![c] = {}]
  /\ last' = Step("handleDragEnd", c, active[c], over, todos[c], Len(outbox[c]), << >>)
  /\ IF NothingToMove(active[c], over)
     THEN /\ DragEndEvent(c, Len(DragEndWrites))
          /\ outbox' = [outbox EXCEPT ![c] = @ \o DragEndWrites]
          /\ UNCHANGED << todos, now >>
     ELSE /\ DragEndEvent(c, Len(DragEndWrites) + 1)
          /\ \E ts \in Readings(Len(Moved(todos[c], active[c], over)), now) :
               LET reOrdered == ReOrdered(todos[c], active[c], over, ts, clientId(c)) IN
               /\ now' = ts[Len(ts)]
               /\ todos' = [todos EXCEPT ![c] = reOrdered]
               /\ saveToFirebase(c, DragEndWrites, reOrdered)
  /\ UNCHANGED << remoteDrag, mounted, remoteTodos, remoteDragging,
                  todosDirty, dragDirty, nextId, lastWrite >>

\* The component unmounts: both subscriptions end and the slot is removed.
Unmount(c) ==
  /\ UserEvent(c, 1)
  /\ mounted' = [mounted EXCEPT ![c] = FALSE]
  /\ active' = [active EXCEPT ![c] = Null]
  /\ droppables' = [droppables EXCEPT ![c] = {}]
  /\ todosDirty' = [todosDirty EXCEPT ![c] = FALSE]
  /\ dragDirty' = [dragDirty EXCEPT ![c] = FALSE]
  /\ outbox' = [outbox EXCEPT ![c] = Append(@, RemoveDragging)]
  /\ last' = Step("unmount", c, active[c], Null, todos[c], Len(outbox[c]), << >>)
  /\ UNCHANGED << todos, remoteDrag, remoteTodos, remoteDragging, now, nextId, lastWrite >>

\* A write that merges into the document, as update() would.
StoredMerged(old, data) ==
  [k \in DOMAIN old \cup DOMAIN data |-> IF k \in DOMAIN data THEN data[k] ELSE old[k]]

\* set(ref, data): the document's value after the write, whatever it held.
Stored(old, data) == data

\* A backend that does not push a write back to the tab that issued it.
SubscribersButWriter(writer) == { d \in Clients \ {writer} : mounted[d] }

\* The tabs whose onValue subscriptions are live when a write of `writer` is
\* applied: every mounted tab, the writer included.
Subscribers(writer) == { d \in Clients : mounted[d] }

\* A slot that only the session whose record it holds may delete.
SlotOwned(old, writer, w) ==
  IF w.op = "remove" /\ old # << >> /\ old[1].sessionId # sessionId(writer)
  THEN old
  ELSE w.drag

\* set(draggingRef.current, record) and remove(draggingRef.current): the
\* slot's value after tab `writer`'s write w, whatever it held.
Slot(old, writer, w) == w.drag

\* The backend applies the oldest write of tab c: set() replaces the whole
\* document, remove() deletes it, and every subscriber is owed the new value.
ApplyWrite(c) ==
  /\ outbox[c] # << >>
  /\ LET w == Head(outbox[c]) IN
     /\ outbox' = [outbox EXCEPT ![c] = Tail(@)]
     /\ IF w.path = "todos"
        THEN /\ remoteTodos' = Stored(remoteTodos, w.data)
             /\ lastWrite' = << w.list >>
             /\ todosDirty' = [d \in Clients |-> d \in Subscribers(c)]
             /\ UNCHANGED << remoteDragging, dragDirty >>
        ELSE /\ remoteDragging' = Slot(remoteDragging, c, w)
             /\ dragDirty' = [d \in Clients |-> d \in Subscribers(c)]
             /\ UNCHANGED << remoteTodos, lastWrite, todosDirty >>
     /\ last' = [Step("applyWrite", c, w.path, w.op, << >>, Len(outbox[c]), remoteTodos)
                     EXCEPT !.drag = remoteDragging]
  /\ UNCHANGED << todos, remoteDrag, mounted, active, droppables, now, nextId, ops >>

\* The todos subscription's callback runs in tab c with the document's value.
onTodosValue(c) ==
  /\ mounted[c]
  /\ todosDirty[c]
  /\ todosDirty' = [todosDirty EXCEPT ![c] = FALSE]
  /\ todos' = [todos EXCEPT ![c] = FromSnapshot(remoteTodos)]
  /\ last' = Step("onTodosValue", c, Null, Null, todos[c], Len(outbox[c]), remoteTodos)
  /\ UNCHANGED << remoteDrag, mounted, active, droppables, outbox, remoteTodos, remoteDragging,
                  dragDirty, now, nextId, ops, lastWrite >>

\* A callback that exposes whatever record is pushed.
ExposedUnfiltered(c, val) == val

\* What the dragging subscription's callback exposes for the value val.
Exposed(c, val) ==
  IF val = << >> THEN << >>
  ELSE IF val[1].sessionId # sessionId(c) THEN val
  ELSE << >>

\* The dragging subscription's callback runs in tab c.
onDraggingValue(c) ==
  /\ mounted[c]
  /\ dragDirty[c]
  /\ dragDirty' = [dragDirty EXCEPT ![c] = FALSE]
  /\ remoteDrag' = [remoteDrag EXCEPT ![c] = Exposed(c, remoteDragging)]
  /\ last' = [Step("onDraggingValue", c, Null, Null, todos[c], Len(outbox[c]), << >>)
                  EXCEPT !.shown = remoteDrag[c], !.drag = remoteDragging]
  /\ UNCHANGED << todos, mounted, active, droppables, outbox, remoteTodos, remoteDragging,
                  todosDirty, now, nextId, ops, lastWrite >>

\* The handlers run as the rendered page calls them: onToggle, onDelete and
\* the drag handle belong to an item of the list.
Next ==
  \E c \in Clients :
    \/ \E text \in Texts : addTodo(c, text)
    \/ \E id \in IdSet(todos[c]) : toggleTodo(c, id)
    \/ \E id \in IdSet(todos[c]) : deleteTodo(c, id)
    \/ \E id \in IdSet(todos[c]) : handleDragStart(c, id)
    \/ \E over \in OverTargets(c) : handleDragMove(c, over)
    \/ \E over \in OverTargets(c) : handleDragEnd(c, over)
    \/ Unmount(c)
    \/ ApplyWrite(c)
    \/ onTodosValue(c)
    \/ onDraggingValue(c)

Spec == Init /\ [][Next]_vars

\* toggleTodo and deleteTodo called with an id that is in no task of the
\* list, as a caller other than the rendered page may.
CallWithUnknownId ==
  \E c \in Clients : \E id \in KnownIds \ IdSet(todos[c]) :
    \/ toggleTodo(c, id)
    \/ deleteTodo(c, id)

NextCalls == Next \/ CallWithUnknownId

SpecCalls == Init /\ [][NextCalls]_vars

\* A step of the backend: a write is applied or a value is pushed.
Backend ==
  \E c \in Clients : ApplyWrite(c) \/ onTodosValue(c) \/ onDraggingValue(c)

\* The runs in which the backend does not stop while a write is unapplied or
\* a value unpushed, from a backend that holds one task.
InitLive == InitFrom({ Record(SubSeq(InitTasks, 1, 1)) })

SpecLive == InitLive /\ [][Next]_vars /\ WF_vars(Backend)

\* A handler of a failed write that issues the write again.
RetryOnWriteError(w) == << w >>

\* The .catch of a write: console.error for a list write, nothing for a
\* presence write; no write is issued and no state is set.
OnWriteError(w) == << >>

\* The backend rejects the oldest write of tab c: the documents stay as they
\* are, nothing is pushed, and the promise's catch handler runs in the tab.
FailWrite(c) ==
  /\ outbox[c] # << >>
  /\ LET w == Head(outbox[c]) IN
     /\ outbox' = [outbox EXCEPT ![c] = Tail(@) \o OnWriteError(w)]
     /\ last' = Step("failWrite", c, w.path, w.op, w.list, Len(outbox[c]), remoteTodos)
  /\ UNCHANGED << todos, remoteDrag, mounted, active, droppables, remoteTodos,
                  remoteDragging, todosDirty, dragDirty, now, nextId, ops, lastWrite >>

NextFail == Next \/ \E c \in Clients : FailWrite(c)

\* The runs in which writes may fail, from a backend that holds one task.
SpecFail == InitLive /\ [][NextFail]_vars

\* A state in the middle of a drag: tab c1 began to drag the first of the
\* backend's two tasks, its record is in the slot and exposed by tab c2, and
\* tab c2 has since deleted that task: both tabs show the task left.  The
\* user events are counted from here.
InitDrag ==
  LET began == SubSeq(InitTasks, 1, 2)
      shown == SubSeq(InitTasks, 2, 2)
      rec   == RemoteDragState(Id(began[1]), Null, sessionId("c1"))
  IN  /\ todos = [c \in Clients |-> shown]
      /\ remoteDrag = [c \in Clients |-> IF c = "c1" THEN << >> ELSE << rec >>]
      /\ mounted = [c \in Clients |-> TRUE]
      /\ active = [c \in Clients |-> IF c = "c1" THEN Id(began[1]) ELSE Null]
      /\ droppables = [c \in Clients |-> IF c = "c1" THEN IdSet(began) ELSE {}]
      /\ outbox = [c \in Clients |-> << >>]
      /\ remoteTodos = Record(shown)
      /\ remoteDragging = << rec >>
      /\ todosDirty = [c \in Clients |-> FALSE]
      /\ dragDirty = [c \in Clients |-> FALSE]
      /\ now = 0
      /\ nextId = Len(InitTasks) + 1
      /\ ops = 0
      /\ lastWrite = << shown >>
      /\ last = Step("init", Null, Null, Null, << >>, 0, << >>)

\* The runs that begin in the middle of a drag.
SpecDrag == InitDrag /\ [][Next]_vars

\* ------------------------------------------------------------------ claims

\* A sequence of ids without the id x.
Others(ids, x) == SelectSeq(ids, LAMBDA y : y # x)

\* The 1-based position of the id x in a list that holds it.
PositionOf(list, x) == CHOOSE i \in 1..Len(list) : Id(list[i]) = x

\* A list whose order values do not decrease along the sequence.
IsSortedByOrder(list) ==
  \A i, j \in 1..Len(list) : i < j => list[i].order <= list[j].order

\* The tasks a document value holds.
ValueSet(val) == { val[k] : k \in DOMAIN val }

\* The step taken last was a drop of last.a on another task last.b.
DroppedOnAnother ==
  /\ last.op = "handleDragEnd"
  /\ last.b # Null
  /\ last.a # last.b

\* C1: a drop of activeId on another task overId, both in the list S, gives S
\* with activeId taken out and put back at overId's index: the same ids, the
\* others in their relative order, and order = 1..len(S) along the sequence.
C1_ReorderMovesActiveToOver ==
  (DroppedOnAnother /\ {last.a, last.b} \subseteq IdSet(last.before)) =>
    LET S == last.before
        R == todos[last.c]
    IN  /\ Len(R) = Len(S)
        /\ IdSet(R) = IdSet(S)
        /\ Id(R[PositionOf(S, last.b)]) = last.a
        /\ Others(Ids(R), last.a) = Others(Ids(S), last.a)
        /\ \A k \in 1..Len(R) : R[k].order = k

\* C1's scenario: [a, b, c] with active = a, over = c gives [b, c, a], orders 1, 2, 3.
C1_Witness ==
  /\ DroppedOnAnother
  /\ last.a = UUIDs[1] /\ last.b = UUIDs[3]
  /\ Ids(last.before) = << UUIDs[1], UUIDs[2], UUIDs[3] >>
  /\ Ids(todos[last.c]) = << UUIDs[2], UUIDs[3], UUIDs[1] >>
  /\ [k \in 1..3 |-> todos[last.c][k].order] = << 1, 2, 3 >>

\* C2: the "todos" document is last-full-list-write-wins: it holds exactly the
\* tasks of the list written last, each under its own id, and nothing of any
\* earlier write.
C2_LastFullListWriteWins ==
  lastWrite # << >> =>
    /\ ValueSet(remoteTodos) = Range(lastWrite[1])
    /\ \A k \in DOMAIN remoteTodos : Id(remoteTodos[k]) = k

\* Two tabs added a task each to the same three tasks; both writes were
\* applied and pushed, and only one of the two new tasks is left anywhere.
C2_Witness ==
  /\ ops = 2 /\ nextId = Len(InitTasks) + 3
  /\ \A c \in Clients : outbox[c] = << >> /\ ~todosDirty[c] /\ mounted[c]
  /\ \E kept, lost \in {UUIDs[4], UUIDs[5]} :
       /\ kept # lost
       /\ DOMAIN remoteTodos = IdSet(InitTasks) \cup {kept}
       /\ \A c \in Clients : IdSet(todos[c]) = IdSet(InitTasks) \cup {kept}

\* Every subscribed tab shows the document's tasks, sorted by order.
Converged ==
  \A c \in Clients : mounted[c] =>
    /\ Range(todos[c]) = ValueSet(remoteTodos)
    /\ Len(todos[c]) = Cardinality(DOMAIN remoteTodos)
    /\ IsSortedByOrder(todos[c])

\* C3: with every issued write applied and every value pushed, the tabs end
\* up, once the user gestures stop, with the document's tasks sorted by order.
C3_EventuallyConverged == <>[]Converged

\* A push replaced a list holding the tab's own change by the document's,
\* which holds the other tab's, and nothing is left to apply or push.
C3_Witness ==
  /\ last.op = "onTodosValue"
  /\ last.before # todos[last.c]
  /\ \E t \in Range(last.before) : t.updatedBy = clientId(last.c)
  /\ \E t \in Range(todos[last.c]) : t.updatedBy \in Clients \ {clientId(last.c)}
  /\ ops = MaxOps
  /\ \A c \in Clients : outbox[c] = << >> /\ ~todosDirty[c]
  /\ Converged

\* C4: a pushed value replaces the list whole: the empty list for an empty
\* value, else exactly the value's tasks in ascending order.
C4_SnapshotReplacesList ==
  last.op = "onTodosValue" =>
    LET R == todos[last.c] IN
    IF DOMAIN last.val = {} THEN R = << >>
    ELSE /\ Range(R) = ValueSet(last.val)
         /\ Len(R) = Cardinality(DOMAIN last.val)
         /\ IsSortedByOrder(R)

\* A push of a non-empty value dropped a task only the local list held.
C4_Witness ==
  /\ last.op = "onTodosValue"
  /\ DOMAIN last.val # {}
  /\ \E i \in 1..Len(last.before) : Id(last.before[i]) \notin DOMAIN last.val
  /\ IdSet(todos[last.c]) = DOMAIN last.val

\* C5: a drop where activeId or overId is not in the list leaves the list as
\* it was.
C5_ReorderOfMissingIdIsNoop ==
  (DroppedOnAnother /\ ~({last.a, last.b} \subseteq IdSet(last.before))) =>
    todos[last.c] = last.before

\* A text with nothing but spaces in it.
Blank(text) == \A i \in 1..Len(text) : text[i] = " "

\* text without the spaces at its two ends, said without trimming: a stretch
\* of text that starts and ends with another character, all else being spaces.
IsTrimOf(trimmed, text) ==
  \E i, j \in 1..Len(text) :
    /\ i <= j
    /\ trimmed = SubSeq(text, i, j)
    /\ text[i] # " " /\ text[j] # " "
    /\ \A k \in 1..Len(text) : (k < i \/ k > j) => text[k] = " "

\* The write tab c issued last, if the step issued one more than it had.
IssuedLast(c) == outbox[c][Len(outbox[c])]

\* C6: add(text) with non-blank text appends one task: a fresh id, the text
\* trimmed, done = false, updatedBy = the client, order = the list's maximum
\* + 1 (1 for an empty list), so above every order in the list; and the whole
\* resulting list is written.
C6_AddAppendsWithNextOrder ==
  (last.op = "addTodo" /\ ~Blank(last.text)) =>
    LET S == last.before
        R == todos[last.c]
        new == R[Len(R)]
    IN  /\ Len(R) = Len(S) + 1
        /\ SubSeq(R, 1, Len(S)) = S
        /\ new.id \notin IdSet(S) \cup DOMAIN remoteTodos
        /\ \A d \in Clients \ {last.c} : new.id \notin IdSet(todos[d])
        /\ IsTrimOf(new.text, last.text)
        /\ new.done = FALSE
        /\ new.updatedBy = clientId(last.c)
        /\ \A i \in 1..Len(S) : S[i].order < new.order
        /\ IF S = << >> THEN new.order = 1
           ELSE \E i \in 1..Len(S) : new.order = S[i].order + 1
        /\ Len(outbox[last.c]) = last.sent + 1
        /\ IssuedLast(last.c).path = "todos"
        /\ IssuedLast(last.c).list = R
        /\ ValueSet(IssuedLast(last.c).data) = Range(R)

\* add(" x ") on a list whose orders are 1 and 3 gave a last task of order 4.
C6_Witness ==
  /\ last.op = "addTodo" /\ last.text = <<" ", "x", " ">>
  /\ [i \in 1..Len(last.before) |-> last.before[i].order] = << 1, 3 >>
  /\ todos[last.c][3].order = 4
  /\ todos[last.c][3].text = <<"x">>

\* C7: toggle(id) and delete(id) with an id in no task of the list change
\* nothing: the list stays and no write is issued.
C7_UnknownIdIsNoop ==
  (last.op \in {"toggleTodo", "deleteTodo"} /\ last.a \notin IdSet(last.before)) =>
    /\ todos[last.c] = last.before
    /\ Len(outbox[last.c]) = last.sent

\* C8: every tab's list is sorted ascending by order, whatever ran.
C8_ListsSortedByOrder ==
  \A c \in Clients : IsSortedByOrder(todos[c])

\* A tab received a list another tab reordered: its ids are no longer in the
\* order the tasks were created in, and its orders ascend.
C8_Witness ==
  /\ last.op = "onTodosValue"
  /\ lastWrite # << >>
  /\ Ids(todos[last.c]) = << UUIDs[2], UUIDs[3], UUIDs[1] >>
  /\ \E t \in Range(todos[last.c]) : t.updatedBy # clientId(last.c) /\ t.updatedBy \in Clients
  /\ IsSortedByOrder(todos[last.c])

\* C9: what a tab exposes as remoteDrag is null or a record of another session.
C9_OwnRecordSuppressed ==
  \A c \in Clients :
    remoteDrag[c] = << >> \/ remoteDrag[c][1].sessionId # sessionId(c)

\* The tab's own record was pushed to it and it exposes nothing.
C9_Witness ==
  /\ last.op = "onDraggingValue"
  /\ last.drag # << >>
  /\ last.drag[1].sessionId = sessionId(last.c)
  /\ remoteDrag[last.c] = << >>

\* Tab c has no drag in progress and every presence write it issued is applied.
PresenceSettled(c) ==
  /\ active[c] = Null
  /\ \A i \in 1..Len(outbox[c]) : outbox[c][i].path # "dragging"

\* The record is one of tab c's session.
RecordOf(c, val) == val # << >> /\ val[1].sessionId = sessionId(c)

\* C10: once a session's drag is over, or its component is gone, and its
\* presence writes are applied, the slot holds no record of that session and,
\* after the push, no other tab exposes one.
C10_NoStaleRecord ==
  \A c \in Clients : PresenceSettled(c) =>
    /\ ~RecordOf(c, remoteDragging)
    /\ \A d \in Clients \ {c} :
         (mounted[d] /\ ~dragDirty[d]) => ~RecordOf(c, remoteDrag[d])

\* Another tab exposed the session's record until the push of the removal.
C10_Witness ==
  /\ last.op = "onDraggingValue"
  /\ remoteDragging = << >>
  /\ remoteDrag[last.c] = << >>
  /\ \E c \in Clients \ {last.c} : RecordOf(c, last.shown) /\ PresenceSettled(c)

\* The step taken last applied a write of tab last.c to the presence slot.
AppliedToSlot == last.op = "applyWrite" /\ last.a = "dragging"

\* Tab c is in a drag and every presence write it issued is applied.
StillDragging(c) ==
  /\ active[c] # Null
  /\ \A i \in 1..Len(outbox[c]) : outbox[c][i].path # "dragging"

\* C11: the presence slot is one record with last-write-wins and no ownership
\* check: a drag start or move leaves the writer's record in the slot whatever
\* the slot held, a drag end or teardown leaves it empty even if it held the
\* record of another session that is still dragging, and the slot and every
\* observer hold at most one record.
C11_SlotIsSharedLastWriteWins ==
  /\ Len(remoteDragging) <= 1
  /\ \A c \in Clients : Len(remoteDrag[c]) <= 1
  /\ AppliedToSlot =>
       IF last.b = "remove" THEN remoteDragging = << >>
       ELSE RecordOf(last.c, remoteDragging)

\* Two sessions drag; the first one's drag end deleted the slot while it held
\* the record of the second, which is still dragging.
C11_Witness ==
  /\ AppliedToSlot /\ last.b = "remove"
  /\ mounted[last.c]
  /\ \E d \in Clients \ {last.c} : RecordOf(d, last.drag) /\ StillDragging(d)
  /\ remoteDragging = << >>

\* The step taken last was the failure of a list write of tab last.c.
FailedListWrite == last.op = "failWrite" /\ last.a = "todos"

\* The handlers of tab c that set its list.
ListHandlers == {"addTodo", "toggleTodo", "deleteTodo", "handleDragEnd"}

\* C12 as stated: when a list write fails, the store is as it was, no write
\* is issued again, and the tab's list, if it still is the list written,
\* is different from what the store holds.
C12_FailedWriteStaysDifferent ==
  (FailedListWrite /\ todos[last.c] = last.before) =>
    /\ remoteTodos = last.val
    /\ Len(outbox[last.c]) = last.sent - 1
    /\ todos[last.c] # FromSnapshot(remoteTodos)

\* C12, amended: the failure of a list write changes neither the store nor
\* any tab's list, issues no write and owes no push; a tab's list changes
\* only by one of its own handlers or by a push to it (of a value written
\* before or after the failure), and writes are issued only by handlers.
C12_FailedWriteKeepsOptimisticValue ==
  [][\A c \in Clients :
       /\ (FailedListWrite' /\ last'.c = c) =>
            /\ remoteTodos' = remoteTodos
            /\ todos' = todos
            /\ outbox' = [outbox EXCEPT ![c] = Tail(@)]
            /\ todosDirty' = todosDirty
       /\ todos'[c] # todos[c] =>
            last'.c = c /\ last'.op \in ListHandlers \cup {"onTodosValue"}
       /\ Len(outbox'[c]) > Len(outbox[c]) =>
            last'.c = c /\ last'.op \notin {"failWrite", "applyWrite", "onTodosValue"}
    ]_vars

\* A list write failed while the tab shows the list it wrote, which is not
\* the store's, and no push is owed to the tab.
C12_Witness ==
  /\ FailedListWrite
  /\ todos[last.c] = last.before
  /\ remoteTodos = last.val
  /\ todos[last.c] # FromSnapshot(remoteTodos)
  /\ ~todosDirty[last.c] /\ mounted[last.c]
  /\ outbox[last.c] = << >>

\* C13: add(text) with text empty or all whitespace is a no-op: no task is
\* created, the list is as it was and no write is issued.
C13_BlankAddIsNoop ==
  (last.op = "addTodo" /\ Blank(last.text)) =>
    /\ todos[last.c] = last.before
    /\ Len(outbox[last.c]) = last.sent

\* add("  ") on a list of three tasks, with nothing in flight.
C13_Witness ==
  /\ last.op = "addTodo" /\ last.text = <<" ", " ">>
  /\ Len(last.before) = 3
  /\ todos[last.c] = last.before
  /\ outbox[last.c] = << >>

\* Tab last.c toggled the task last.a of its list, and its next step toggles
\* the same task again: no push and no other mutation came in between.
ToggledTwice ==
  /\ last.op = "toggleTodo" /\ last'.op = "toggleTodo"
  /\ last'.c = last.c /\ last'.a = last.a
  /\ last.a \in IdSet(last.before) \ {UndefinedKey}
  /\ last'.before = todos[last.c]

\* C14: two toggles of one task in one tab, nothing in between, give the
\* task its done flag back and leave the list's length, sequence of ids,
\* texts and order values, and every other task, as they were.
C14_ToggleIsInvolutionOnDone ==
  [][ToggledTwice =>
       LET S0 == last.before
           S2 == todos'[last.c]
       IN  /\ Len(S2) = Len(S0)
           /\ \A i \in 1..Len(S0) :
                IF Id(S0[i]) = last.a
                THEN /\ S2[i].id = S0[i].id
                     /\ S2[i].done = S0[i].done
                     /\ S2[i].text = S0[i].text
                     /\ S2[i].order = S0[i].order
                ELSE S2[i] = S0[i]
    ]_vars

\* The only two gestures were toggles of task b in one tab: b, done when the
\* tabs opened, was not done after the first and is done again.
C14_Witness ==
  /\ last.op = "toggleTodo" /\ last.a = UUIDs[2]
  /\ ops = 2
  /\ Ids(last.before) = Ids(InitTasks)
  /\ last.before[2].updatedBy = clientId(last.c)
  /\ last.before[2].done = FALSE
  /\ todos[last.c][2].done = TRUE
  /\ Ids(todos[last.c]) = Ids(InitTasks)

\* C15: the second of two toggles of one task in succession stamps an
\* updatedAt different from the first one's, whatever the clock read.
C15_SecondToggleStampsAnotherTime ==
  [][ToggledTwice =>
       \A i \in 1..Len(todos[last.c]) :
         Id(todos[last.c][i]) = last.a =>
           todos'[last.c][i].updatedAt # todos[last.c][i].updatedAt
    ]_vars

\* C16: a drag that ends on the item itself or over nothing leaves the list
\* as it was, no renumbering and no new stamps, and issues one write only:
\* the removal of the presence slot.
C16_DropOnSelfOrNothingIsNoop ==
  (last.op = "handleDragEnd" /\ (last.b = Null \/ last.a = last.b)) =>
    /\ todos[last.c] = last.before
    /\ Len(outbox[last.c]) = last.sent + 1
    /\ IssuedLast(last.c) = RemoveDragging
    /\ active[last.c] = Null

\* Task b of [a, b, c] was dropped on itself.
C16_Witness ==
  /\ last.op = "handleDragEnd"
  /\ last.a = UUIDs[2] /\ last.b = UUIDs[2]
  /\ Ids(last.before) = Ids(InitTasks)
  /\ todos[last.c] = last.before
  /\ IssuedLast(last.c) = RemoveDragging

\* C17: the echo of a tab's own write gives the tab the list it has: when
\* the list pushed to a tab is the list of the write applied last and the
\* tab still shows that list, the push leaves the list identical; and for
\* every list a tab holds, its id-keyed map's values sorted by order are
\* the list itself.
C17_EchoIsIdentity ==
  /\ \A c \in Clients : FromSnapshot(Record(todos[c])) = todos[c]
  /\ (last.op = "onTodosValue" /\ lastWrite = << last.before >>) =>
       todos[last.c] = last.before

\* A tab reordered [a, b, c] to [b, c, a]; the write was applied and its
\* value pushed back to the tab, which shows [b, c, a] as before.
C17_Witness ==
  /\ last.op = "onTodosValue"
  /\ lastWrite = << last.before >>
  /\ Ids(last.before) = << UUIDs[2], UUIDs[3], UUIDs[1] >>
  /\ \A i \in 1..3 : last.before[i].updatedBy = clientId(last.c)
  /\ todos[last.c] = last.before
  /\ outbox[last.c] = << >>

\* The step taken last was a drop of last.a on another task, both in the list.
EffectiveReorder ==
  DroppedOnAnother /\ {last.a, last.b} \subseteq IdSet(last.before)

\* C18: an effective reorder by tab c stamps every task of the list, moved
\* or not, with updatedBy = c and a newly read updatedAt, leaves each task's id,
\* text and done as they were, and writes the whole resulting list.
C18_ReorderRestampsEveryTask ==
  EffectiveReorder =>
    LET S == last.before
        R == todos[last.c]
    IN  /\ Len(R) = Len(S)
        /\ \A i \in 1..Len(R) :
             /\ R[i].updatedBy = clientId(last.c)
             /\ R[i].updatedAt <= now
             /\ \A j \in 1..Len(S) : S[j].updatedAt <= R[i].updatedAt
             /\ \A k \in 1..(i - 1) : R[k].updatedAt <= R[i].updatedAt
             /\ \E j \in 1..Len(S) :
                  /\ Id(S[j]) = Id(R[i])
                  /\ S[j].text = R[i].text
                  /\ S[j].done = R[i].done
        /\ Len(outbox[last.c]) = last.sent + 2
        /\ IssuedLast(last.c).path = "todos"
        /\ IssuedLast(last.c).list = R
        /\ ValueSet(IssuedLast(last.c).data) = Range(R)

\* In [a, b, c], all stamped by another client, b was dropped on a: c was
\* not moved and carries the tab's stamp as a and b do.
C18_Witness ==
  /\ EffectiveReorder
  /\ last.a = UUIDs[2] /\ last.b = UUIDs[1]
  /\ Ids(last.before) = Ids(InitTasks)
  /\ \A i \in 1..3 : last.before[i].updatedBy # clientId(last.c)
  /\ Id(todos[last.c][3]) = UUIDs[3]
  /\ todos[last.c][3].updatedBy = clientId(last.c)
  /\ todos[last.c][3].updatedAt = 1
  /\ todos[last.c][3].done = last.before[3].done

\* The step taken last was op on a task with id last.a of the tab's list.
OnPresentTask(op) ==
  /\ last.op = op
  /\ last.a \in IdSet(last.before) \ {UndefinedKey}

\* C19: toggle(id) and delete(id) with id in the list touch that task only.
\* Toggle flips its done and stamps it, keeping its id, text and order, the
\* list's length and sequence and every other task; delete takes out exactly
\* that task and keeps the others, their order values and their sequence.
C19_ToggleAndDeleteTouchOneTask ==
  LET S == last.before
      R == todos[last.c]
  IN  /\ OnPresentTask("toggleTodo") =>
           /\ Len(R) = Len(S)
           /\ \A i \in 1..Len(S) :
                IF Id(S[i]) = last.a
                THEN /\ R[i].id = S[i].id
                     /\ R[i].text = S[i].text
                     /\ R[i].order = S[i].order
                     /\ R[i].done = ~S[i].done
                     /\ R[i].updatedBy = clientId(last.c)
                     /\ R[i].updatedAt = now
                     /\ S[i].updatedAt <= R[i].updatedAt
                ELSE R[i] = S[i]
      /\ OnPresentTask("deleteTodo") =>
           /\ Len(R) = Len(S) - 1
           /\ \E k \in 1..Len(S) :
                /\ Id(S[k]) = last.a
                /\ R = SubSeq(S, 1, k - 1) \o SubSeq(S, k + 1, Len(S))

\* Task b was deleted from [a, b, c]: a and c are left as they were, with
\* the order values 1 and 3.
C19_Witness ==
  /\ OnPresentTask("deleteTodo")
  /\ last.a = UUIDs[2]
  /\ Ids(last.before) = Ids(InitTasks)
  /\ todos[last.c] = << last.before[1], last.before[3] >>
  /\ todos[last.c][2].order = 3

\* The tasks of a list have an id each, all different, and different orders.
DistinctInList(list) ==
  /\ \A i \in 1..Len(list) : "id" \in DOMAIN list[i]
  /\ \A i, j \in 1..Len(list) :
       i # j => Id(list[i]) # Id(list[j]) /\ list[i].order # list[j].order

\* The tasks of a document value are stored under their own ids and have
\* different orders.
DistinctInStore(val) ==
  /\ \A k \in DOMAIN val : "id" \in DOMAIN val[k] /\ val[k].id = k
  /\ \A k, l \in DOMAIN val : k # l => val[k].order # val[l].order

\* C20: in every state the store's tasks and each tab's tasks have ids, each
\* stored under its own, all different, and order values all different.
C20_DistinctIdsAndOrders ==
  /\ DistinctInStore(remoteTodos)
  /\ \A c \in Clients : DistinctInList(todos[c])

====
